---- MODULE Spec2Model ----
(***************************************************************************)
(* A model of StockTradingEngine (src/Stockengine.py): per-ticker order    *)
(* books kept as singly linked lists of Order objects, an order-id counter *)
(* and a per-book version that are both updated through the simulated      *)
(* _compare_and_swap, and the list of executed trades.                     *)
(*                                                                         *)
(* Order objects live in the heap `orders`: a reference is an index into   *)
(* it and None is 0.  Every thread that calls addOrder is a process whose  *)
(* position is th[t].pc.  The code takes no lock, so the interpreter can   *)
(* switch threads inside every method; a step of a thread is a stretch of  *)
(* code that ends at such a point (a call, or the backward jump of a       *)
(* loop).  The walk of a list by one loop is one step; what follows the    *)
(* loop is another.  _compare_and_swap is a getattr with a test, and a     *)
(* setattr: two steps.  Trade timestamps are not modelled (nothing reads   *)
(* them).                                                                  *)
(***************************************************************************)
EXTENDS Integers, Sequences, FiniteSets, TLC

\* ------------------------------------------------------------- bounds
MaxOrders == 3      \* accepted addOrder calls in one run
MaxQty == 2         \* quantities submitted are 0..MaxQty (0 is invalid)
MaxPrice == 2       \* prices submitted are 0..MaxPrice (0 is invalid)
max_tickers == 2    \* StockTradingEngine(max_tickers=2)
MaxPreemptions == 2 \* times a thread is descheduled in the middle of a call
MaxDeepOrders == 5  \* accepted addOrder calls in a run of the Deep environment
MaxDeepPreemptions == 1 \* preemptions in a run of the Deep environment
max_retries == 10   \* matchOrder's retry ceiling

Threads == {1, 2}
None == 0

TickerIdx == 0 .. (max_tickers - 1)
\* f"STOCK{i:04d}" for the slots of this model
StockName(i) == IF i = 0 THEN "STOCK0000"
                ELSE IF i = 1 THEN "STOCK0001"
                ELSE IF i = 2 THEN "STOCK0002" ELSE "STOCK000X"

\* The calls addOrder(order_type, ticker, quantity, price) a caller can
\* make.  Prices stand for floats and quantities for ints; the valid calls name
\* a symbol of the engine or the unknown "STK0".
ValidCalls == [order_type : {"BUY", "SELL"},
               ticker : {"STOCK0000", "STOCK0001", "STK0"},
               quantity : 1 .. MaxQty, price : 1 .. MaxPrice]
\* one call for each way an argument can be invalid
InvalidCalls ==
    LET c == [order_type |-> "BUY", ticker |-> "STOCK0000",
              quantity |-> 1, price |-> 1]
    IN  {[c EXCEPT !.order_type = "HOLD"], [c EXCEPT !.ticker = ""],
         [c EXCEPT !.quantity = 0], [c EXCEPT !.quantity = -1],
         [c EXCEPT !.price = 0], [c EXCEPT !.price = -1]}
Calls == ValidCalls \cup InvalidCalls
\* the valid calls that name one symbol of the engine
SameSymbolCalls == {c \in ValidCalls : c.ticker = "STOCK0000"}
\* by how much time.time() has advanced since the call before: a clock may
\* return the same value twice (Ties) or be fine enough never to (NoTies)
Ties == {0, 1}
NoTies == {1}

\* An environment of the engine: the calls its callers make, their clock, how
\* many calls are accepted in a run and how often the scheduler preempts.
\* Concurrent: the threads call addOrder with valid arguments, all for the
\* same symbol.  Sequential: only thread 1 calls, with any arguments.
Concurrent == [calls |-> SameSymbolCalls, ticks |-> NoTies,
               max_orders |-> MaxOrders, max_preemptions |-> MaxPreemptions]
Sequential == [calls |-> Calls, ticks |-> Ties,
               max_orders |-> MaxOrders, max_preemptions |-> 0]
\* Deep: longer runs of concurrent calls for one share each of the same
\* symbol, with fewer preemptions.
Deep == [calls |-> {c \in SameSymbolCalls : c.quantity = 1}, ticks |-> NoTies,
         max_orders |-> MaxDeepOrders, max_preemptions |-> MaxDeepPreemptions]
\* Light: short runs of concurrent calls for one share each of the same
\* symbol, with one preemption.
Light == [calls |-> {c \in SameSymbolCalls : c.quantity = 1}, ticks |-> NoTies,
          max_orders |-> MaxOrders, max_preemptions |-> MaxDeepPreemptions]
\* TwoSymbols: short runs of concurrent calls for one share each of either
\* symbol of the engine, with one preemption.
TwoSymbols == [calls |-> {c \in ValidCalls :
                            c.quantity = 1 /\ c.ticker \in {StockName(0), StockName(1)}},
               ticks |-> NoTies,
               max_orders |-> MaxOrders, max_preemptions |-> MaxDeepPreemptions]

VARIABLES
    ticker_symbols,   \* engine.ticker_symbols : index -> symbol
    order_books,      \* engine.order_books : index -> [buy_head, sell_head, version]
    orders,           \* the heap of Order objects, in allocation order
    order_counter,    \* engine.order_counter
    executed_trades,  \* engine.executed_trades
    clock,            \* the last value time.time() returned
    th,               \* per thread: position and locals of its addOrder call
    lastError,        \* the exception the latest rejected addOrder raised
    running,          \* the thread that took the last step, if it is in a call
    preemptions       \* times a thread was descheduled in the middle of a call

vars == <<ticker_symbols, order_books, orders, order_counter, executed_trades,
          clock, th, lastError, running, preemptions>>

\* ------------------------------------------------------- thread locals
IdleLocals ==
    [pc |-> "idle", order_type |-> "BUY", ticker_index |-> 0, quantity |-> 0,
     price |-> 0, current |-> 0, new_order |-> None, head |-> None,
     prev |-> None, ret_head |-> None,
     buy_head |-> None, sell_head |-> None, current_version |-> 0,
     local_buy_head |-> None, local_sell_head |-> None,
     local_trades |-> <<>>, retry_count |-> 0, trade_quantity |-> 0]

\* an OrderBook as constructed (lines 47-51); `commits` is not a field of the
\* program: it counts the compare-and-swaps on `version` that succeeded
EmptyBook == [buy_head |-> None, sell_head |-> None, version |-> 0,
              commits |-> 0]

Init ==
    /\ ticker_symbols = [i \in TickerIdx |-> StockName(i)]
    /\ order_books = [i \in TickerIdx |-> EmptyBook]
    /\ orders = <<>>
    /\ order_counter = 0
    /\ executed_trades = <<>>
    /\ clock = 0
    /\ th = [t \in Threads |-> IdleLocals]
    /\ lastError = "none"
    /\ running = None
    /\ preemptions = 0

\* ------------------------------------------------------ pure helpers
MinOf(S) == CHOOSE x \in S : \A y \in S : x <= y

\* addOrder's four isinstance/range checks (lines 201-208)
ValidInput(order_type, ticker, quantity, price) ==
    /\ order_type \in {"BUY", "SELL"}
    /\ ticker # ""
    /\ quantity > 0
    /\ price > 0

\* _get_ticker_index that takes over the last slot when none is empty, and
\* still raises
GetTickerIndexEvicting(symbols, ticker) ==
    LET found == {i \in DOMAIN symbols : symbols[i] = ticker}
        last == CHOOSE i \in DOMAIN symbols : \A j \in DOMAIN symbols : j <= i
    IN  IF found # {}
        THEN [raised |-> FALSE, index |-> CHOOSE i \in found : \A j \in found : i <= j,
              symbols |-> symbols]
        ELSE [raised |-> TRUE, index |-> 0,
              symbols |-> [symbols EXCEPT ![last] = ticker]]

\* _get_ticker_index: the index holding `ticker`, else the first empty slot,
\* which it assigns; else it raises.  Returns the outcome and the symbols.
_get_ticker_index(symbols, ticker) ==
    LET found == {i \in DOMAIN symbols : symbols[i] = ticker}
        empty == {i \in DOMAIN symbols : symbols[i] = ""}
    IN  IF found # {}
        THEN [raised |-> FALSE, index |-> MinOf(found), symbols |-> symbols]
        ELSE IF empty # {}
        THEN [raised |-> FALSE, index |-> MinOf(empty),
              symbols |-> [symbols EXCEPT ![MinOf(empty)] = ticker]]
        ELSE [raised |-> TRUE, index |-> 0, symbols |-> symbols]

\* the loop test of _insert_order_sorted (lines 149-154): the new order goes
\* before `cur`
GoesBefore(new, cur) ==
    IF new.type = "BUY"
    THEN new.price > cur.price
            \/ (new.price = cur.price /\ new.timestamp < cur.timestamp)
    ELSE new.price < cur.price
            \/ (new.price = cur.price /\ new.timestamp < cur.timestamp)

\* the test for a new head answering yes for every order
BecomesHeadAlways(new, head) == TRUE

\* the test for a new head (lines 140-142)
BecomesHead(new, head) ==
    \/ (new.type = "BUY" /\ new.price > head.price)
    \/ (new.type = "SELL" /\ new.price < head.price)
    \/ (new.price = head.price /\ new.timestamp < head.timestamp)

\* the while loop of lines 146-156: the last order the new one does not go
\* before (None if there is none)
RECURSIVE FindPrev(_, _, _, _, _)
FindPrev(ords, new, current, prev, fuel) ==
    IF current = None \/ fuel = 0 THEN prev
    ELSE IF GoesBefore(new, ords[current]) THEN prev
    ELSE FindPrev(ords, new, ords[current].next, current, fuel - 1)

\* _insert_order_sorted, lines 136-156, up to the end of its loop: the head
\* to return when the list is empty or the order becomes the head (its next
\* is then the old head), else the order found to link it after
InsertWalk(ords, head, n) ==
    IF head = None THEN [done |-> TRUE, ret |-> n, prev |-> None, orders |-> ords]
    ELSE IF BecomesHead(ords[n], ords[head])
    THEN [done |-> TRUE, ret |-> n, prev |-> None,
          orders |-> [ords EXCEPT ![n].next = head]]
    ELSE [done |-> FALSE, ret |-> head,
          prev |-> FindPrev(ords, ords[n], head, None, Len(ords)),
          orders |-> ords]

\* _insert_order_sorted, lines 158-164: the links written after the loop
InsertLink(ords, head, prev, n) ==
    IF prev # None
    THEN [ret |-> head,
          orders |-> [ords EXCEPT ![n].next = ords[prev].next, ![prev].next = n]]
    ELSE [ret |-> n, orders |-> [ords EXCEPT ![n].next = head]]

\* _mark_order_inactive(head, order_id): the first order from head with that
\* id that is active becomes inactive
RECURSIVE _mark_order_inactive(_, _, _, _)
_mark_order_inactive(ords, current, order_id, fuel) ==
    IF current = None \/ fuel = 0 THEN ords
    ELSE IF ords[current].id = order_id /\ ords[current].is_active
    THEN [ords EXCEPT ![current].is_active = FALSE]
    ELSE _mark_order_inactive(ords, ords[current].next, order_id, fuel - 1)

\* lines 333-335: for every trade of the batch, mark its buy order from the
\* snapshotted buy head and its sell order from the snapshotted sell head
RECURSIVE MarkTrades(_, _, _, _)
MarkTrades(ords, buy_head, sell_head, trades) ==
    IF trades = <<>> THEN ords
    ELSE LET tr == Head(trades)
             o1 == _mark_order_inactive(ords, buy_head, tr.buy_order_id, Len(ords))
             o2 == _mark_order_inactive(o1, sell_head, tr.sell_order_id, Len(ords))
         IN  MarkTrades(o2, buy_head, sell_head, Tail(trades))

\* lines 380-381 / 390-391: drop the leading inactive orders
RECURSIVE SkipInactive(_, _, _)
SkipInactive(ords, head, fuel) ==
    IF head = None \/ fuel = 0 THEN head
    ELSE IF ~ords[head].is_active THEN SkipInactive(ords, ords[head].next, fuel - 1)
    ELSE head

\* lines 382-387 / 392-397: splice out the inactive orders after `current`
RECURSIVE Splice(_, _, _)
Splice(ords, current, fuel) ==
    IF current = None \/ fuel = 0 THEN ords
    ELSE IF ords[current].next = None THEN ords
    ELSE IF ~ords[ords[current].next].is_active
    THEN Splice([ords EXCEPT ![current].next = ords[ords[current].next].next],
                current, fuel - 1)
    ELSE Splice(ords, ords[current].next, fuel - 1)

\* _cleanup_inactive_orders(order_book): both lists of the book
_cleanup_inactive_orders(ords, book) ==
    LET bh == SkipInactive(ords, book.buy_head, Len(ords))
        o1 == Splice(ords, bh, Len(ords))
        sh == SkipInactive(o1, book.sell_head, Len(ords))
        o2 == Splice(o1, sh, Len(ords))
    IN  [book |-> [book EXCEPT !.buy_head = bh, !.sell_head = sh], orders |-> o2]

\* ------------------------------------------------------------ actions
\* every call working on the first book
FirstBook(t) == order_books[0]

\* line 182 and lines 289-290: order_book = self.order_books[ticker_index]
Book(t) == order_books[th[t].ticker_index]

\* The scheduler: thread t takes the next step.  Taking over from a thread
\* that is inside a call is a preemption, and a run has at most MaxPreemptions.
Sched(t, env) ==
    /\ running' = IF th'[t].pc = "idle" THEN None ELSE t
    /\ IF running \in {None, t}
       THEN preemptions' = preemptions
       ELSE /\ preemptions < env.max_preemptions
            /\ preemptions' = preemptions + 1

\* addOrder calls that passed validation and have not allocated their Order
Starting == {u \in Threads : th[u].pc \in {"id_read", "id_cas", "id_set"}}

\* addOrder, lines 200-210: validation and _get_ticker_index.  A call that
\* raises ends here; an accepted call goes on to _get_next_order_id.
Submit(t, env) ==
    /\ th[t].pc = "idle"
    /\ \E c \in env.calls :
        LET order_type == c.order_type
            ticker == c.ticker
            quantity == c.quantity
            price == c.price
        IN
        IF ~ValidInput(order_type, ticker, quantity, price)
        THEN /\ lastError' = "InvalidInput"
             /\ UNCHANGED <<ticker_symbols, th>>
        ELSE LET r == _get_ticker_index(ticker_symbols, ticker)
             IN  /\ ticker_symbols' = r.symbols
                 /\ IF r.raised
                    THEN /\ lastError' = "CapacityExceeded"
                         /\ UNCHANGED th
                    ELSE /\ Len(orders) + Cardinality(Starting) < env.max_orders
                         /\ lastError' = "none"
                         /\ th' = [th EXCEPT ![t] =
                                [IdleLocals EXCEPT !.pc = "id_read",
                                                   !.order_type = order_type,
                                                   !.ticker_index = r.index,
                                                   !.quantity = quantity,
                                                   !.price = price]]
    /\ UNCHANGED <<order_books, orders, order_counter, executed_trades, clock>>
    /\ Sched(t, env)

\* _get_next_order_id, line 240: current = self.order_counter
IdRead(t, env) ==
    /\ th[t].pc = "id_read"
    /\ th' = [th EXCEPT ![t].current = order_counter, ![t].pc = "id_cas"]
    /\ UNCHANGED <<ticker_symbols, order_books, orders, order_counter,
                   executed_trades, clock, lastError>>
    /\ Sched(t, env)

\* _compare_and_swap on order_counter, lines 262-264: the getattr and the test
IdCas(t, env) ==
    /\ th[t].pc = "id_cas"
    /\ th' = [th EXCEPT ![t].pc =
                IF order_counter # th[t].current THEN "id_read" ELSE "id_set"]
    /\ UNCHANGED <<ticker_symbols, order_books, orders, order_counter,
                   executed_trades, clock, lastError>>
    /\ Sched(t, env)

\* _compare_and_swap on order_counter, line 265: the setattr; then line 243
\* returns `current` as the id and lines 212-219 build the Order, stamped with
\* time.time(), which has advanced since the last call or has not
IdSet(t, env) ==
    /\ th[t].pc = "id_set"
    /\ order_counter' = th[t].current + 1
    /\ \E tick \in env.ticks :
        /\ clock' = clock + tick
        /\ orders' = Append(orders,
              [id |-> th[t].current, type |-> th[t].order_type,
               ticker_index |-> th[t].ticker_index, quantity |-> th[t].quantity,
               price |-> th[t].price, timestamp |-> clock + tick,
               next |-> None, is_active |-> TRUE,
               submitted |-> th[t].quantity])
    /\ th' = [th EXCEPT ![t] =
            [IdleLocals EXCEPT !.pc = "ins_walk",
                               !.ticker_index = th[t].ticker_index,
                               !.new_order = Len(orders) + 1]]
    /\ UNCHANGED <<ticker_symbols, order_books, executed_trades, lastError>>
    /\ Sched(t, env)

\* _add_order_to_book, lines 178-181, and _insert_order_sorted up to the end
\* of its loop: the head is read and the place of the order is found
InsWalk(t, env) ==
    /\ th[t].pc = "ins_walk"
    /\ LET n == th[t].new_order
           head == IF orders[n].type = "BUY" THEN Book(t).buy_head
                   ELSE Book(t).sell_head
           r == InsertWalk(orders, head, n)
       IN  /\ orders' = r.orders
           /\ th' = [th EXCEPT ![t].head = IF r.done THEN None ELSE head,
                               ![t].prev = r.prev,
                               ![t].ret_head = r.ret,
                               ![t].pc = IF r.done THEN "ins_write" ELSE "ins_link"]
    /\ UNCHANGED <<ticker_symbols, order_books, order_counter, executed_trades,
                   clock, lastError>>
    /\ Sched(t, env)

\* _insert_order_sorted, lines 158-164: the order is linked after `prev`
InsLink(t, env) ==
    /\ th[t].pc = "ins_link"
    /\ LET r == InsertLink(orders, th[t].head, th[t].prev, th[t].new_order)
       IN  /\ orders' = r.orders
           /\ th' = [th EXCEPT ![t].head = None, ![t].prev = None,
                               ![t].ret_head = r.ret, ![t].pc = "ins_write"]
    /\ UNCHANGED <<ticker_symbols, order_books, order_counter, executed_trades,
                   clock, lastError>>
    /\ Sched(t, env)

\* _add_order_to_book, lines 179/181: the returned head is stored in the book
InsWrite(t, env) ==
    /\ th[t].pc = "ins_write"
    /\ order_books' = [order_books EXCEPT ![th[t].ticker_index] =
            IF orders[th[t].new_order].type = "BUY"
            THEN [@ EXCEPT !.buy_head = th[t].ret_head]
            ELSE [@ EXCEPT !.sell_head = th[t].ret_head]]
    /\ th' = [th EXCEPT ![t].ret_head = None, ![t].pc = "m_loop"]
    /\ UNCHANGED <<ticker_symbols, orders, order_counter, executed_trades,
                   clock, lastError>>
    /\ Sched(t, env)

\* matchOrder, lines 286-299: the loop test, the snapshot of the heads and of
\* the version, and the return when a side is empty or the retries are used up
MatchSnapshot(t, env) ==
    /\ th[t].pc = "m_loop"
    /\ th' = [th EXCEPT ![t] =
            IF th[t].retry_count >= max_retries THEN IdleLocals
            ELSE IF Book(t).buy_head = None \/ Book(t).sell_head = None
            THEN IdleLocals
            ELSE [@ EXCEPT !.buy_head = Book(t).buy_head,
                           !.sell_head = Book(t).sell_head,
                           !.current_version = Book(t).version,
                           !.local_buy_head = Book(t).buy_head,
                           !.local_sell_head = Book(t).sell_head,
                           !.local_trades = <<>>,
                           !.pc = "m_walk"]]
    /\ UNCHANGED <<ticker_symbols, order_books, orders, order_counter,
                   executed_trades, clock, lastError>>
    /\ Sched(t, env)

Min(a, b) == IF a <= b THEN a ELSE b

\* a local head that is not moved
NextStays(ords, n) == n

\* lines 303, 306, 324, 327: a local head moves to the next order
NextOrder(ords, n) == ords[n].next

\* the comparison of line 308 turned around
CrossesReversed(buy, sell) == buy.price <= sell.price

\* line 308: the two heads cross
Crosses(buy, sell) == buy.price >= sell.price

\* line 310: the price of a trade
TradePrice(buy, sell) == sell.price

\* matchOrder, lines 301-319 and 328-329: one turn of the inner loop up to the
\* Trade it builds: skip an inactive head, or stop, or build the trade
MatchWalk(t, env) ==
    /\ th[t].pc = "m_walk"
    /\ LET lb == th[t].local_buy_head
           ls == th[t].local_sell_head
       IN  th' = [th EXCEPT ![t] =
            IF lb = None \/ ls = None THEN [@ EXCEPT !.pc = "m_cas"]
            ELSE IF ~orders[lb].is_active
            THEN [@ EXCEPT !.local_buy_head = NextOrder(orders, lb)]
            ELSE IF ~orders[ls].is_active
            THEN [@ EXCEPT !.local_sell_head = NextOrder(orders, ls)]
            ELSE IF Crosses(orders[lb], orders[ls])
            THEN [@ EXCEPT
                    !.trade_quantity = Min(orders[lb].quantity, orders[ls].quantity),
                    !.local_trades = Append(@,
                        [buy_order_id |-> orders[lb].id,
                         sell_order_id |-> orders[ls].id,
                         ticker_index |-> th[t].ticker_index,
                         quantity |-> Min(orders[lb].quantity, orders[ls].quantity),
                         price |-> TradePrice(orders[lb], orders[ls]),
                         buy_ref |-> lb, sell_ref |-> ls, commit |-> 0]),
                    !.pc = "m_apply"]
            ELSE [@ EXCEPT !.pc = "m_cas"]]
    /\ UNCHANGED <<ticker_symbols, order_books, orders, order_counter,
                   executed_trades, clock, lastError>>
    /\ Sched(t, env)

\* matchOrder, lines 320-321: both quantities are decremented in place
MatchApply(t, env) ==
    /\ th[t].pc = "m_apply"
    /\ LET lb == th[t].local_buy_head
           ls == th[t].local_sell_head
           q  == th[t].trade_quantity
       IN  /\ orders' = [orders EXCEPT ![lb].quantity = @ - q,
                                       ![ls].quantity = @ - q]
           /\ th' = [th EXCEPT ![t].trade_quantity = 0, ![t].pc = "m_flags"]
    /\ UNCHANGED <<ticker_symbols, order_books, order_counter, executed_trades,
                   clock, lastError>>
    /\ Sched(t, env)

\* matchOrder, lines 322-327: the quantities are read again; an order found at
\* 0 is made inactive and the local head moves past it
MatchFlags(t, env) ==
    /\ th[t].pc = "m_flags"
    /\ LET lb == th[t].local_buy_head
           ls == th[t].local_sell_head
           bz == orders[lb].quantity = 0
           sz == orders[ls].quantity = 0
       IN  /\ orders' = [orders EXCEPT
                ![lb].is_active = IF bz THEN FALSE ELSE @,
                ![ls].is_active = IF sz THEN FALSE ELSE @]
           /\ th' = [th EXCEPT
                ![t].local_buy_head = IF bz THEN NextOrder(orders, lb) ELSE @,
                ![t].local_sell_head = IF sz THEN NextOrder(orders, ls) ELSE @,
                ![t].pc = "m_walk"]
    /\ UNCHANGED <<ticker_symbols, order_books, order_counter, executed_trades,
                   clock, lastError>>
    /\ Sched(t, env)

\* _compare_and_swap on the book's version, lines 262-264, and lines 343-345
\* when it returns False
MatchCas(t, env) ==
    /\ th[t].pc = "m_cas"
    /\ th' = [th EXCEPT ![t] =
            IF Book(t).version # th[t].current_version
            THEN [@ EXCEPT !.retry_count = @ + 1, !.pc = "m_loop"]
            ELSE [@ EXCEPT !.pc = "m_set"]]
    /\ UNCHANGED <<ticker_symbols, order_books, orders, order_counter,
                   executed_trades, clock, lastError>>
    /\ Sched(t, env)

\* _compare_and_swap on the book's version, line 265: the setattr.  The
\* trades of the batch are stamped with the number of this commit on the
\* book (`commit`, not a field of the program's Trade).
MatchSet(t, env) ==
    /\ th[t].pc = "m_set"
    /\ order_books' = [order_books EXCEPT
            ![th[t].ticker_index].version = th[t].current_version + 1,
            ![th[t].ticker_index].commits = @ + 1]
    /\ th' = [th EXCEPT
            ![t].local_trades =
                [i \in 1 .. Len(@) |-> [@[i] EXCEPT !.commit = Book(t).commits + 1]],
            ![t].pc = "m_commit"]
    /\ UNCHANGED <<ticker_symbols, orders, order_counter, executed_trades,
                   clock, lastError>>
    /\ Sched(t, env)

\* matchOrder, lines 333-342: the orders of the batch are marked inactive,
\* the book is cleaned up, the batch is appended to executed_trades, and
\* addOrder returns
MatchCommit(t, env) ==
    /\ th[t].pc = "m_commit"
    /\ LET marked == MarkTrades(orders, th[t].buy_head, th[t].sell_head,
                                th[t].local_trades)
           r == _cleanup_inactive_orders(marked, Book(t))
       IN  /\ orders' = r.orders
           /\ order_books' = [order_books EXCEPT ![th[t].ticker_index] = r.book]
    /\ executed_trades' = executed_trades \o th[t].local_trades
    /\ th' = [th EXCEPT ![t] = IdleLocals]
    /\ UNCHANGED <<ticker_symbols, order_counter, clock, lastError>>
    /\ Sched(t, env)

Step(t, env) ==
    \/ Submit(t, env)
    \/ IdRead(t, env)
    \/ IdCas(t, env)
    \/ IdSet(t, env)
    \/ InsWalk(t, env)
    \/ InsLink(t, env)
    \/ InsWrite(t, env)
    \/ MatchSnapshot(t, env)
    \/ MatchWalk(t, env)
    \/ MatchApply(t, env)
    \/ MatchFlags(t, env)
    \/ MatchCas(t, env)
    \/ MatchSet(t, env)
    \/ MatchCommit(t, env)

\* the threads call addOrder concurrently
Next == \E t \in Threads : Step(t, Concurrent)

Spec == Init /\ [][Next]_vars

\* a single thread calls addOrder
NextSeq == \E t \in {1} : Step(t, Sequential)

SpecSeq == Init /\ [][NextSeq]_vars

\* the threads call addOrder concurrently, in longer runs
NextDeep == \E t \in Threads : Step(t, Deep)

SpecDeep == Init /\ [][NextDeep]_vars

\* the threads call addOrder concurrently for two symbols
NextTwo == \E t \in Threads : Step(t, TwoSymbols)

SpecTwo == Init /\ [][NextTwo]_vars

\* the threads call addOrder concurrently, in short runs
NextFair == \E t \in Threads : Step(t, Light)

\* ... and the scheduler is fair: a thread that can take a step is not
\* passed over forever
SpecFair ==
    Init /\ [][NextFair]_vars /\ \A t \in Threads : WF_vars(Step(t, Light))

\* ------------------------------------------------- what the claims use
Nodes == 1 .. Len(orders)
Trades == {executed_trades[i] : i \in 1 .. Len(executed_trades)}

\* every addOrder call has returned
Quiescent == \A t \in Threads : th[t].pc = "idle"

\* the orders reachable from a head
RECURSIVE Reach(_, _, _)
Reach(ords, current, fuel) ==
    IF current = None \/ fuel = 0 THEN {}
    ELSE {current} \cup Reach(ords, ords[current].next, fuel - 1)

\* order n is reachable from its side's head of its symbol's book
InBook(n) ==
    LET book == order_books[orders[n].ticker_index]
    IN  n \in Reach(orders,
                    IF orders[n].type = "BUY" THEN book.buy_head ELSE book.sell_head,
                    Len(orders))

\* the quantity the journaled trades filled of order n (trades carry ids; the
\* model also records which Order object each side was)
RECURSIVE SumFills(_, _)
SumFills(trades, n) ==
    IF trades = <<>> THEN 0
    ELSE (IF Head(trades).buy_ref = n \/ Head(trades).sell_ref = n
          THEN Head(trades).quantity ELSE 0) + SumFills(Tail(trades), n)
Fills(n) == SumFills(executed_trades, n)

\* some journaled trade names order n, by its id or as the object it matched
Referenced(n) ==
    \E tr \in Trades : \/ tr.buy_ref = n \/ tr.sell_ref = n
                       \/ tr.buy_order_id = orders[n].id
                       \/ tr.sell_order_id = orders[n].id

\* C1: after any single-threaded sequence of calls, every order whose
\* journaled fills sum to less than its submitted quantity is still in its
\* book, with remaining quantity = submitted quantity - fills.
C1_PartialFillRests ==
    Quiescent =>
        \A n \in Nodes :
            Fills(n) < orders[n].submitted =>
                /\ InBook(n)
                /\ orders[n].quantity = orders[n].submitted - Fills(n)

\* C2: between completed calls, an order is active if and only if its
\* remaining quantity is greater than zero.
C2_ActiveIffRemaining ==
    Quiescent =>
        \A n \in Nodes : orders[n].is_active <=> (orders[n].quantity > 0)

\* C3: every journaled trade's price is the limit price of the resting
\* counterparty, the order of the two that was submitted first.
C3_RestingPrice ==
    \A tr \in Trades :
        tr.price = orders[Min(tr.buy_ref, tr.sell_ref)].price

\* C4: for every journaled trade, buy order's limit price >= trade price >=
\* sell order's limit price, under any interleaving.
C4_PriceWithinLimits ==
    \A tr \in Trades :
        /\ orders[tr.buy_ref].type = "BUY"
        /\ orders[tr.sell_ref].type = "SELL"
        /\ orders[tr.buy_ref].price >= tr.price
        /\ tr.price >= orders[tr.sell_ref].price

\* a trade strictly inside the buyer's limit, journaled in a run in which a
\* thread was preempted
C4_Witness ==
    /\ preemptions > 0
    /\ \E tr \in Trades : orders[tr.buy_ref].price > tr.price

\* C5: in every reachable state, the journaled trades that reference an order
\* fill at most the quantity it was submitted with.
C5_NoOverfill ==
    \A n \in Nodes : Fills(n) <= orders[n].submitted

\* the active orders reachable from a head
ActiveFrom(head) == {n \in Reach(orders, head, Len(orders)) : orders[n].is_active}

\* C6: at quiescence every book is uncrossed: one side has no active order,
\* or the highest active bid is strictly below the lowest active ask.
C6_Uncrossed ==
    Quiescent =>
        \A i \in TickerIdx :
            \A b \in ActiveFrom(order_books[i].buy_head),
               a \in ActiveFrom(order_books[i].sell_head) :
                orders[b].price < orders[a].price

\* a before b in the key of their side: bids by price descending, asks by
\* price ascending, then by arrival time ascending
KeyOrdered(a, b) ==
    IF a.type = "BUY"
    THEN a.price > b.price \/ (a.price = b.price /\ a.timestamp <= b.timestamp)
    ELSE a.price < b.price \/ (a.price = b.price /\ a.timestamp <= b.timestamp)

SortedFrom(head) ==
    \A n \in Reach(orders, head, Len(orders)) :
        orders[n].next # None => KeyOrdered(orders[n], orders[orders[n].next])

\* C7: at quiescence both lists of every book are sorted by their key and
\* contain no inactive order.
C7_SortedAllActive ==
    Quiescent =>
        \A i \in TickerIdx :
            /\ SortedFrom(order_books[i].buy_head)
            /\ SortedFrom(order_books[i].sell_head)
            /\ \A n \in Reach(orders, order_books[i].buy_head, Len(orders))
                        \cup Reach(orders, order_books[i].sell_head, Len(orders)) :
                    orders[n].is_active

\* C8: no two accepted calls stamp the same id on their orders.
C8_UniqueIds ==
    \A n, m \in Nodes : n # m => orders[n].id # orders[m].id

\* C9: at quiescence every returned order that no journaled trade references
\* is reachable from its side's head of its symbol's book.
C9_NoLostOrder ==
    Quiescent => \A n \in Nodes : ~Referenced(n) => InBook(n)

\* C10: a call that raises (invalid argument, or no slot for the symbol)
\* leaves the books, the orders, the journal, the symbols and the id counter
\* as they were.
C10_RejectLeavesNoTrace ==
    [][(lastError' # "none" /\ th' = th) =>
          UNCHANGED <<order_books, orders, executed_trades, ticker_symbols,
                      order_counter>>]_vars

\* a call was rejected for want of a slot after trades were journaled
C10_Witness ==
    /\ lastError = "CapacityExceeded"
    /\ executed_trades # <<>>

\* C11: a call fails for want of a slot only when no slot is unassigned, a
\* slot being assigned when a call for a new symbol takes it; so while some
\* slot has never had an order, and on the fresh engine above all, a call
\* for a symbol not seen before ("STK0") is accepted.
C11_FreeSlotAccepts ==
    lastError = "CapacityExceeded" =>
        \A i \in TickerIdx : \E n \in Nodes : orders[n].ticker_index = i

\* a has strictly better priority than b on their side: a better price, or
\* the same price and an earlier arrival
Better(a, b) ==
    \/ (a.type = "BUY" /\ a.price > b.price)
    \/ (a.type = "SELL" /\ a.price < b.price)
    \/ (a.price = b.price /\ a.timestamp < b.timestamp)

\* no other active order of r's side and symbol has strictly better priority
BestActive(r) ==
    \A m \in Nodes :
        (/\ m # r
         /\ orders[m].is_active
         /\ orders[m].type = orders[r].type
         /\ orders[m].ticker_index = orders[r].ticker_index)
            => ~Better(orders[m], orders[r])

\* the resting side of a trade of thread t's batch: the order that is not
\* the one t's call brought
Resting(t, tr) == IF tr.buy_ref = th[t].new_order THEN tr.sell_ref ELSE tr.buy_ref

\* C12: with a single submitting thread, when a batch commits every trade in
\* it is between the incoming order and a resting order R such that no
\* other active order on R's side has a strictly better price, or the same
\* price and an earlier arrival; a sweep makes one trade per resting order,
\* best priority first.
C12_PriceTimePriority ==
    \A t \in Threads :
        th[t].pc = "m_commit" =>
            LET batch == th[t].local_trades
            IN  /\ \A i \in 1 .. Len(batch) :
                        /\ th[t].new_order \in {batch[i].buy_ref, batch[i].sell_ref}
                        /\ BestActive(Resting(t, batch[i]))
                /\ \A i, j \in 1 .. Len(batch) :
                        i < j =>
                            /\ Resting(t, batch[i]) # Resting(t, batch[j])
                            /\ ~Better(orders[Resting(t, batch[j])],
                                       orders[Resting(t, batch[i])])

\* a sweep of two resting orders at different prices is about to commit
C12_Witness ==
    \E t \in Threads :
        /\ th[t].pc = "m_commit"
        /\ Len(th[t].local_trades) = 2
        /\ orders[Resting(t, th[t].local_trades[1])].price
                # orders[Resting(t, th[t].local_trades[2])].price

\* C13: the journal lists the trades of a symbol in commit order: when one
\* commit advanced the book's version before another did, every trade of its
\* batch comes before every trade of the other's batch.
C13_JournalInCommitOrder ==
    \A i, j \in 1 .. Len(executed_trades) :
        (/\ i < j
         /\ executed_trades[i].ticker_index = executed_trades[j].ticker_index)
            => executed_trades[i].commit <= executed_trades[j].commit

C15_OtherBooksUnchanged ==
    [][\A t \in Threads :
            th'[t] # th[t] =>
                LET k == IF th[t].pc = "idle" THEN th'[t].ticker_index
                         ELSE th[t].ticker_index
                IN  \A j \in TickerIdx \ {k} :
                        /\ order_books'[j] = order_books[j]
                        /\ \A n \in Nodes :
                                orders[n].ticker_index = j => orders'[n] = orders[n]]_vars

\* a thread is about to commit a trade on one symbol while the book of the
\* other symbol holds an order, in a run with a preemption
C15_Witness ==
    /\ preemptions > 0
    /\ \E t \in Threads :
            /\ th[t].pc = "m_commit"
            /\ th[t].local_trades # <<>>
            /\ \E j \in TickerIdx \ {th[t].ticker_index} :
                    order_books[j].buy_head # None \/ order_books[j].sell_head # None

\* the quantity thread t's current attempt has taken off order n in place
\* (lines 320-321), once each of its pending trades has been applied
Pending(t, n) == SumFills(th[t].local_trades, n)

\* C16: a match attempt whose version commit fails has made no change of
\* its own: when the compare-and-swap fails, the attempt has taken nothing
\* off the remaining quantity of any order and has deactivated none, so
\* every order is as the attempt found it.
C16_FailedAttemptChangesNothing ==
    [][\A t \in Threads :
            (th[t].pc = "m_cas" /\ th'[t].pc = "m_loop") =>
                \A n \in Nodes :
                    /\ Pending(t, n) = 0
                    /\ \A i \in 1 .. Len(th[t].local_trades) :
                            n \in {th[t].local_trades[i].buy_ref,
                                   th[t].local_trades[i].sell_ref}
                                => orders[n].is_active]_vars

\* C17: only one committer wins per version: of the attempts that
\* snapshotted version v of a book at most one commits, and each commit
\* raises the version by exactly 1, so the version of a book is the number
\* of compare-and-swaps on it that succeeded.
C17_VersionCountsCommits ==
    \A i \in TickerIdx : order_books[i].version = order_books[i].commits

\* no other active order in the book, on r's side, has strictly better
\* priority than r
BestInBook(r) ==
    LET book == order_books[orders[r].ticker_index]
        head == IF orders[r].type = "BUY" THEN book.buy_head ELSE book.sell_head
    IN  \A m \in ActiveFrom(head) \ {r} : ~Better(orders[m], orders[r])

\* C18: with concurrent submitters, at the moment a match commits (its
\* compare-and-swap advances the version), each trade of its batch involves
\* on each side the order with the best priority among that side's active
\* orders in the book, also when another thread inserted an order after the
\* snapshot.
C18_PriorityAtCommit ==
    [][\A t \in Threads :
            (th[t].pc = "m_set" /\ th'[t].pc = "m_commit") =>
                \A i \in 1 .. Len(th[t].local_trades) :
                    /\ BestInBook(th[t].local_trades[i].buy_ref)
                    /\ BestInBook(th[t].local_trades[i].sell_ref)]_vars

\* C19: the life of an order only moves forward: in every step its remaining
\* quantity does not increase and is not below zero afterwards, and an
\* inactive order does not become active.
C19_LifecycleForward ==
    [][\A n \in Nodes :
            /\ orders'[n].quantity <= orders[n].quantity
            /\ orders'[n].quantity >= 0
            /\ ~orders[n].is_active => ~orders'[n].is_active]_vars

\* C20: at quiescence, for every order, submitted quantity minus remaining
\* quantity equals the sum of the quantities of the journaled trades that
\* reference it.
C20_FillsConserved ==
    Quiescent =>
        \A n \in Nodes : orders[n].submitted - orders[n].quantity = Fills(n)

\* C21: every journaled trade has a quantity of at least 1.
C21_TradeQuantityPositive ==
    \A tr \in Trades : tr.quantity >= 1

====
